---- MODULE Spec2Model ----
(***************************************************************************)
(* A model of lolita-megaburger-vj:                                        *)
(*   random_chroma.py   process_video, the colour-key compositor loop      *)
(*   process_videos.py  main and apply_ultra_glitch, the glitch pipeline   *)
(*                                                                         *)
(* Spec / FairSpec model process_video.  Frames are not pixel arrays here: *)
(* a background frame is the index it was decoded from, and a colour is    *)
(* one of NumColors corners of the 8-bit colour cube.                      *)
(*                                                                         *)
(* MainSpec models main's frame loop and its cleanup, StreamSpec a single  *)
(* stream of calls of apply_ultra_glitch under every outcome of its gates. *)
(* There a frame is the term that says how it was computed: a decoded      *)
(* frame <<"src", stream, index>>, or a transform applied to frames.       *)
(***************************************************************************)
EXTENDS Integers, Sequences, FiniteSets, TLC

(***************************************************************************)
(* Bounds of the model.                                                    *)
(***************************************************************************)
\* largest MAX_OUTPUT_FRAMES tried
MaxCap == 3
\* largest frame count a background source reports or really holds
MaxBg == 2
\* largest frame count the foreground source reports
MaxFg == 3
\* largest CHANGE_INTERVAL_FRAMES tried
MaxInterval == 2
\* largest TRANSITION_FRAMES tried
MaxTransition == 2
\* colours rand_bgr can draw (corners of the colour cube, at most 8)
NumColors == 2
\* output frames an uncapped run counts before its counters are folded
MaxUncapped == 2
\* largest number of frames of main's base and overlay videos
MaxFrames == 2
\* calls of apply_ultra_glitch on the stream of StreamSpec
MaxCalls == 2

(***************************************************************************)
(* Input sets that are not single numbers.                                 *)
(***************************************************************************)
\* values CAP_PROP_FPS reports for the foreground (0: unknown)
ReportedFpsSet == {0, 1, 3}
\* values of OUTPUT_FPS (0: use the source's)
OutputFpsSet == {0, 2}
\* values of MAX_OUTPUT_SECONDS (0: no limit)
SecondsSet == {0, 1}
\* bytes of one foreground frame (width * height * 3): 10x10, and 15360x8640,
\* of which two frames already exceed MAX_PRELOAD_BYTES
FrameBytesSet == {300, 398131200}
\* values of one colour channel of a pixel
ChannelSet == {0, 50, 255}
\* values of TOLERANCE (80 is the shipped one)
ToleranceSet == {0, 1, 80}
\* the first weight of a blend, in tenths (4 is main's)
WeightSet == {0, 4, 10}
\* <<width, height>> of main's base video: 60, 2700 and 4800 bytes a frame
SizeSet == {<<4, 5>>, <<30, 30>>, <<40, 40>>}

(***************************************************************************)
(* Program constants of random_chroma.py.                                  *)
(***************************************************************************)
PRELOAD_FRAME_LIMIT == 250
MAX_PRELOAD_BYTES == 419430400
DEFAULT_SRC_FPS == 30

(***************************************************************************)
(* process_videos.py: subprocess.Popen(..., stdin=subprocess.PIPE) wraps   *)
(* the pipe in an io.BufferedWriter of the pipe's block size.              *)
(***************************************************************************)
STDIN_BUFFER_SIZE == 4096

None == -1
NoFrame == -1
\* a colour that is strictly between two corners of the cube
Mixed == -1
ColorSet == 0 .. (NumColors - 1)

Max(a, b) == IF a >= b THEN a ELSE b
Min(a, b) == IF a <= b THEN a ELSE b

VARIABLES
  \* ---- random_chroma.py: settings and the two sources
  MAX_OUTPUT_FRAMES, MAX_OUTPUT_SECONDS, OUTPUT_FPS,
  CHANGE_INTERVAL_FRAMES, TRANSITION_FRAMES,
  fps_reported,        \* cap_fg.get(CAP_PROP_FPS)
  total_fg_frames,     \* cap_fg.get(CAP_PROP_FRAME_COUNT)
  total_bg_frames,     \* cap_bg.get(CAP_PROP_FRAME_COUNT)
  bg_decodable,        \* frames cap_bg really decodes (at most the count)
  frame_bytes,         \* src_width * src_height * 3
  \* ---- random_chroma.py: process_video's locals
  pc, cap_fg, cap_bg, out,
  max_frames, bg_step, preload, fg_loaded,
  bg_frame_idx, frame_count,
  current_color, target_color, transition_progress,
  ret_bg, frame_bg, retried, fg_frame,
  mask_color, written,
  \* ---- process_videos.py: the two videos and the encoder
  width, height,       \* of cap_base
  base_frames,         \* frames cap_base yields
  overlay_frames,      \* frames cap_overlay (temp_overlay.mp4) yields
  encoder_alive,       \* the ffmpeg process still reads its stdin
  stdin_pending,       \* bytes held in process.stdin's buffer
  stdin_closed,
  \* ---- process_videos.py: main's locals
  mpc, base_pos, overlay_pos, frame1, frame2, frame1_fx, frame2_fx,
  persistence1, persistence2,
  fired1, fired2,      \* the transforms that fired in the last call
  frame1_after,        \* the input frame object once the call is over
  frames_written,      \* calls of process.stdin.write that returned
  write_failed,        \* the except branch of lines 164-166 was taken
  base_released, overlay_released, waited,
  error,               \* the exception that left main, or "none"
  \* ---- one pixel position of one frame, through the mask and the blends
  ppc,
  TOLERANCE,
  px_f,                \* fg_frame at the pixel: <<b, g, r>>
  px_c,                \* current_color
  px_bg,               \* frame_bg at the pixel, or <<>> when ret_bg is false
  mask,                \* the mask at the pixel, in units of 1 / tol
  final,               \* random_chroma.py's final at the pixel
  px_a, px_b,          \* frame1_fx and frame2_fx at the pixel
  blend_w,             \* the weight of frame1_fx in the blend, in tenths
  final_frame          \* process_videos.py's final_frame at the pixel

chromaCfg == <<MAX_OUTPUT_FRAMES, MAX_OUTPUT_SECONDS, OUTPUT_FPS,
               CHANGE_INTERVAL_FRAMES, TRANSITION_FRAMES, fps_reported,
               total_fg_frames, total_bg_frames, bg_decodable, frame_bytes>>
chromaSetup == <<max_frames, bg_step, preload, fg_loaded>>
chromaCaps == <<cap_fg, cap_bg, out>>
chromaColor == <<current_color, target_color, transition_progress>>
chromaBg == <<ret_bg, frame_bg, retried>>
chromaVars == <<chromaCfg, pc, chromaCaps, chromaSetup, bg_frame_idx,
                frame_count, chromaColor, chromaBg, fg_frame, mask_color,
                written>>

mainCfg == <<width, height, base_frames, overlay_frames>>
mainPipe == <<encoder_alive, stdin_pending, stdin_closed>>
mainFrames == <<frame1, frame2, frame1_fx, frame2_fx, frame1_after>>
mainState == <<persistence1, persistence2, fired1, fired2>>
mainEnd == <<base_released, overlay_released, waited>>
mainVars == <<mainCfg, mainPipe, mpc, base_pos, overlay_pos, mainFrames,
              mainState, frames_written, write_failed, mainEnd, error>>

pixelVars == <<ppc, TOLERANCE, px_f, px_c, px_bg, mask, final, px_a, px_b,
               blend_w, final_frame>>

vars == <<chromaVars, mainVars, pixelVars>>

(***************************************************************************)
(* Helpers of process_video.                                               *)
(***************************************************************************)
\* Python's round() of the fraction n/d (d > 0): to nearest, ties to even.
PyRound(n, d) ==
  LET q == n \div d
      r == n % d
  IN  IF 2 * r < d THEN q
      ELSE IF 2 * r > d THEN q + 1
      ELSE IF q % 2 = 0 THEN q ELSE q + 1

\* src_fps = cap_fg.get(cv2.CAP_PROP_FPS) or 30.0
SrcFps == IF fps_reported = 0 THEN DEFAULT_SRC_FPS ELSE fps_reported

\* out_fps = float(OUTPUT_FPS) if OUTPUT_FPS and OUTPUT_FPS > 0 else src_fps
OutFps == IF OUTPUT_FPS > 0 THEN OUTPUT_FPS ELSE SrcFps

\* max_frames: MAX_OUTPUT_FRAMES first, then MAX_OUTPUT_SECONDS, else None
MaxFramesOf ==
  IF MAX_OUTPUT_FRAMES > 0 THEN MAX_OUTPUT_FRAMES
  ELSE IF MAX_OUTPUT_SECONDS > 0
       THEN Max(1, PyRound(MAX_OUTPUT_SECONDS * OutFps, 1))
       ELSE None

\* a slip: int() without round()
BgStepOfTruncated == Max(1, SrcFps \div OutFps)

\* bg_step = max(1, int(round(src_fps / out_fps)))
BgStepOf == Max(1, PyRound(SrcFps, OutFps))

\* preload = total_fg_frames in 1..PRELOAD_FRAME_LIMIT and est_bytes small
PreloadOf ==
  /\ total_fg_frames > 0
  /\ total_fg_frames <= PRELOAD_FRAME_LIMIT
  /\ frame_bytes * Max(1, total_fg_frames) <= MAX_PRELOAD_BYTES

\* cap_bg.set(CAP_PROP_POS_FRAMES, pos); cap_bg.read(): the frame at pos, or
\* a failed read when the source holds no frame there.
BgReadAt(pos) ==
  IF pos < bg_decodable THEN [ret |-> TRUE, frame |-> pos]
                        ELSE [ret |-> FALSE, frame |-> NoFrame]

\* a slip: the position is not wrapped to the frame count
BgSeekPosNoWrap == bg_frame_idx

\* the position asked of cap_bg: bg_frame_idx % max(1, total_bg_frames)
BgSeekPos == bg_frame_idx % Max(1, total_bg_frames)

\* a slip: the retry reads where the failed read was made
RetryPosSame == bg_frame_idx % Max(1, total_bg_frames)

\* loop_reset(cap_bg): cap.set(cv2.CAP_PROP_POS_FRAMES, 0)
RetryPos == 0

\* a slip: > for >=
CapReachedLate == max_frames # None /\ frame_count > max_frames

\* the loop's exit test: max_frames is not None and frame_count >= max_frames
CapReached == max_frames # None /\ frame_count >= max_frames

\* a slip: the interval is ignored
IsBoundaryAlways == TRUE

\* a slip: the test made on the frame's 0-based index
IsBoundaryZeroBased ==
  (frame_count - 1) % Max(1, CHANGE_INTERVAL_FRAMES) = 0

\* frame_count % max(1, CHANGE_INTERVAL_FRAMES) == 0
IsBoundary == frame_count % Max(1, CHANGE_INTERVAL_FRAMES) = 0

\* transition_progress is kept in units of 1 / max(1, TRANSITION_FRAMES):
\* ProgressOne is the value 1.0 and each step adds one unit.  (In double
\* arithmetic the sum of k steps of 1/k is exactly 1.0 for k <= 5.)
ProgressOne == Max(1, TRANSITION_FRAMES)

\* a slip: t is not clamped to the end of the transition
LerpNoSnap(progress, cur, tgt) == IF cur = tgt THEN tgt ELSE Mixed

\* (1 - t) * current_color + t * target_color, t = min(1.0, progress), in
\* exact arithmetic on corners of the colour cube: t = 1 gives the target, an
\* unchanged colour stays, and anything else lies strictly between corners.
Lerp(progress, cur, tgt) ==
  IF progress >= ProgressOne THEN tgt
  ELSE IF cur = tgt THEN tgt
  ELSE Mixed

\* a slip: the snap is forgotten
SettleKeep(cur, tgt) == cur

\* lines 199-201: without a transition the colour snaps to the target
Settle(cur, tgt) == IF TRANSITION_FRAMES = 0 THEN tgt ELSE cur

\* Python integers are unbounded.  Without a cap the loop reads frame_count
\* only through % max(1, CHANGE_INTERVAL_FRAMES) and bg_frame_idx only
\* through % max(1, total_bg_frames), so the model folds the counters of an
\* uncapped run by a common period of both once they pass MaxUncapped; every
\* value the code computes from them is unchanged by the fold.
FoldPeriod == Max(1, CHANGE_INTERVAL_FRAMES) * Max(1, total_bg_frames)
FoldBy ==
  IF max_frames = None /\ frame_count >= MaxUncapped + FoldPeriod
  THEN FoldPeriod ELSE 0

(***************************************************************************)
(* process_video, random_chroma.py                                         *)
(***************************************************************************)
InitChroma ==
  /\ MAX_OUTPUT_FRAMES \in 0 .. MaxCap
  /\ MAX_OUTPUT_SECONDS \in SecondsSet
  /\ OUTPUT_FPS \in OutputFpsSet
  /\ CHANGE_INTERVAL_FRAMES \in 0 .. MaxInterval
  /\ TRANSITION_FRAMES \in 0 .. MaxTransition
  /\ fps_reported \in ReportedFpsSet
  /\ total_fg_frames \in 0 .. MaxFg
  /\ total_bg_frames \in 0 .. MaxBg
  /\ bg_decodable \in 0 .. total_bg_frames
  /\ frame_bytes \in FrameBytesSet
  /\ pc = "start"
  /\ cap_fg = "none" /\ cap_bg = "none" /\ out = "none"
  /\ max_frames = None /\ bg_step = 1 /\ preload = FALSE /\ fg_loaded = 0
  /\ bg_frame_idx = 0 /\ frame_count = 0
  /\ current_color = 0 /\ target_color = 0 /\ transition_progress = 0
  /\ ret_bg = FALSE /\ frame_bg = NoFrame /\ retried = FALSE
  /\ fg_frame = "none" /\ mask_color = 0 /\ written = 0

\* lines 61-62: both captures are constructed; either may fail to open
OpenSources ==
  /\ pc = "start"
  /\ cap_fg' \in {"open", "failed"}
  /\ cap_bg' \in {"open", "failed"}
  /\ pc' = "opened"
  /\ UNCHANGED <<chromaCfg, out, chromaSetup, bg_frame_idx, frame_count,
                 chromaColor, chromaBg, fg_frame, mask_color, written>>
  /\ UNCHANGED <<mainVars, pixelVars>>

\* lines 64-69: return when a source did not open
OpenFailed ==
  /\ pc = "opened"
  /\ cap_fg # "open" \/ cap_bg # "open"
  /\ pc' = "done"
  /\ UNCHANGED <<chromaCfg, chromaCaps, chromaSetup, bg_frame_idx,
                 frame_count, chromaColor, chromaBg, fg_frame, mask_color,
                 written>>
  /\ UNCHANGED <<mainVars, pixelVars>>

\* lines 71-135: max_frames, the writer, the preload, bg_step, first colour
Setup ==
  /\ pc = "opened"
  /\ cap_fg = "open" /\ cap_bg = "open"
  /\ max_frames' = MaxFramesOf
  /\ out' = "open"
  /\ preload' = PreloadOf
  /\ fg_loaded' \in (IF PreloadOf THEN 0 .. total_fg_frames ELSE {0})
  /\ bg_step' = BgStepOf
  /\ bg_frame_idx' = 0
  /\ \E c \in ColorSet : current_color' = c /\ target_color' = c
  /\ transition_progress' = ProgressOne
  /\ frame_count' = 0
  /\ pc' = "loop"
  /\ UNCHANGED <<chromaCfg, cap_fg, cap_bg, chromaBg, fg_frame, mask_color,
                 written>>
  /\ UNCHANGED <<mainVars, pixelVars>>

\* lines 138-140: the cap is reached
ReachedMax ==
  /\ pc = "loop"
  /\ CapReached
  /\ pc' = "release"
  /\ UNCHANGED <<chromaCfg, chromaCaps, chromaSetup, bg_frame_idx,
                 frame_count, chromaColor, chromaBg, fg_frame, mask_color,
                 written>>
  /\ UNCHANGED <<mainVars, pixelVars>>

\* lines 142-165: read the background frame (rewinding once when the read
\* fails), then count the output frame
ReadBackground ==
  /\ pc = "loop"
  /\ ~CapReached
  /\ IF total_bg_frames > 0
     THEN LET first == BgReadAt(BgSeekPos)
              again == BgReadAt(RetryPos)
              got == IF first.ret THEN first ELSE again
          IN  /\ bg_frame_idx' = bg_frame_idx - FoldBy * bg_step + bg_step
              /\ retried' = ~first.ret
              /\ ret_bg' = got.ret
              /\ frame_bg' = got.frame
              /\ IF got.ret
                 THEN /\ frame_count' = frame_count - FoldBy + 1
                      /\ written' = written - FoldBy
                      /\ pc' = "foreground"
                 ELSE /\ frame_count' = frame_count
                      /\ written' = written
                      /\ pc' = "release"
     ELSE /\ ret_bg' = FALSE
          /\ frame_bg' = NoFrame
          /\ retried' = FALSE
          /\ bg_frame_idx' = bg_frame_idx
          /\ frame_count' = frame_count - FoldBy + 1
          /\ written' = written - FoldBy
          /\ pc' = "foreground"
  /\ UNCHANGED <<chromaCfg, chromaCaps, chromaSetup, chromaColor, fg_frame,
                 mask_color>>
  /\ UNCHANGED <<mainVars, pixelVars>>

\* the frame used when no foreground frame can be had (lines 170, 175, 186)
FgFallback == IF ret_bg THEN "bg_copy" ELSE "zeros"

\* lines 167-188: pick the foreground frame
SelectForeground ==
  /\ pc = "foreground"
  /\ IF preload
     THEN IF fg_loaded = 0 THEN fg_frame' = FgFallback ELSE fg_frame' = "fg"
     ELSE IF total_fg_frames <= 0 THEN fg_frame' = FgFallback
          ELSE \* safe_read_frame_at, then cap_fg.read(), then the fallback
               fg_frame' \in {"fg", FgFallback}
  /\ pc' = "target"
  /\ UNCHANGED <<chromaCfg, chromaCaps, chromaSetup, bg_frame_idx,
                 frame_count, chromaColor, chromaBg, mask_color, written>>
  /\ UNCHANGED <<mainVars, pixelVars>>

\* lines 190-193: a new target colour on an interval boundary
UpdateTarget ==
  /\ pc = "target"
  /\ IF IsBoundary
     THEN /\ target_color' \in ColorSet
          /\ transition_progress' = 0
     ELSE UNCHANGED <<target_color, transition_progress>>
  /\ pc' = "transition"
  /\ UNCHANGED <<chromaCfg, chromaCaps, chromaSetup, bg_frame_idx,
                 frame_count, current_color, chromaBg, fg_frame, mask_color,
                 written>>
  /\ UNCHANGED <<mainVars, pixelVars>>

\* lines 195-201: advance the transition
AdvanceTransition ==
  /\ pc = "transition"
  /\ IF transition_progress < ProgressOne /\ TRANSITION_FRAMES > 0
     THEN /\ transition_progress' = transition_progress + 1
          /\ current_color' =
               Lerp(transition_progress + 1, current_color, target_color)
     ELSE /\ transition_progress' = transition_progress
          /\ current_color' = Settle(current_color, target_color)
  /\ pc' = "emit"
  /\ UNCHANGED <<chromaCfg, chromaCaps, chromaSetup, bg_frame_idx,
                 frame_count, target_color, chromaBg, fg_frame, mask_color,
                 written>>
  /\ UNCHANGED <<mainVars, pixelVars>>

\* lines 203-229: the mask from current_color, the composite, out.write
Emit ==
  /\ pc = "emit"
  /\ mask_color' = current_color
  /\ written' = written + 1
  /\ pc' = "loop"
  /\ UNCHANGED <<chromaCfg, chromaCaps, chromaSetup, bg_frame_idx,
                 frame_count, chromaColor, chromaBg, fg_frame>>
  /\ UNCHANGED <<mainVars, pixelVars>>

\* lines 231-235: release both captures and the writer
Release ==
  /\ pc = "release"
  /\ cap_fg' = "released"
  /\ cap_bg' = "released"
  /\ out' = "released"
  /\ pc' = "done"
  /\ UNCHANGED <<chromaCfg, chromaSetup, bg_frame_idx, frame_count,
                 chromaColor, chromaBg, fg_frame, mask_color, written>>
  /\ UNCHANGED <<mainVars, pixelVars>>

(***************************************************************************)
(* apply_ultra_glitch, process_videos.py                                   *)
(*                                                                         *)
(* The call is followed through its five blocks on the record              *)
(*   frame        the caller's frame object                                *)
(*   cur          current_frame                                            *)
(*   shared       current_frame is the very object frame                   *)
(*   persistence  the caller's dict                                        *)
(*   fired        the transforms that fired, in order                      *)
(*   raised       a draw raised ValueError; later blocks do not run        *)
(* An assignment to current_frame rebinds the name; an indexed assignment  *)
(* (current_frame[...] = ...) writes into the object it names.             *)
(***************************************************************************)
\* Python's None, and the empty dict's persistence.get(...)
NoneFrame == <<>>
EmptyPersistence == [prev_frame |-> NoneFrame, feedback_frame |-> NoneFrame]

\* one outcome of the call's six draws of np.random.rand() < p
GateSet == [chan : BOOLEAN, noise : BOOLEAN, scramble : BOOLEAN,
            mosh : BOOLEAN, block : BOOLEAN, feedback : BOOLEAN]

\* np.random.randint(low, high) raises ValueError unless low < high
RandintOk(low, high) == low < high

\* a slip: current_frame = frame, the same object
CopyFrameAlias(frame) == [cur |-> frame, shared |-> TRUE]

\* line 33: current_frame = frame.copy()
CopyFrame(frame) == [cur |-> frame, shared |-> FALSE]

Enter(frame, persistence) ==
  [frame |-> frame, cur |-> CopyFrame(frame).cur,
   shared |-> CopyFrame(frame).shared, persistence |-> persistence,
   fired |-> <<>>, raised |-> FALSE]

Rebind(st, value, name) ==
  [st EXCEPT !.cur = value, !.shared = FALSE, !.fired = Append(@, name)]

WriteInto(st, value, name) ==
  [st EXCEPT !.cur = value,
             !.frame = IF st.shared THEN value ELSE @,
             !.fired = Append(@, name)]

Raise(st) == [st EXCEPT !.raised = TRUE]

\* lines 36-48: split, roll each channel, merge
ChannelDisplace(st, g) ==
  IF st.raised \/ ~g.chan THEN st
  ELSE Rebind(st, <<"chan", st.cur>>, "chan")

\* line 58: the row count, np.random.randint(1, h // 5)
ScrambleRowsOk(h) == RandintOk(1, h \div 5)
\* line 60: the row shift, np.random.randint(-w // 2, w // 2)
ScrambleShiftOk(w) == RandintOk((-w) \div 2, w \div 2)

\* a slip: the scramble's gate is moved out of the noise's block
NoiseAndScrambleFlat(st, w, h, g) ==
  IF st.raised THEN st
  ELSE LET noisy == IF g.noise THEN Rebind(st, <<"noise", st.cur>>, "noise")
                    ELSE st
       IN  IF ~g.scramble THEN noisy
           ELSE IF ~ScrambleRowsOk(h) \/ ~RandintOk(0, h)
                   \/ ~ScrambleShiftOk(w)
                THEN Raise(noisy)
                ELSE WriteInto(noisy, <<"scramble", noisy.cur>>, "scramble")

\* lines 51-61: the noise blend, then the scramble of random rows
NoiseAndScramble(st, w, h, g) ==
  IF st.raised \/ ~g.noise THEN st
  ELSE LET noisy == Rebind(st, <<"noise", st.cur>>, "noise")
       IN  IF ~g.scramble THEN noisy
           ELSE IF ~ScrambleRowsOk(h) \/ ~RandintOk(0, h)
                   \/ ~ScrambleShiftOk(w)
                THEN Raise(noisy)
                ELSE WriteInto(noisy, <<"scramble", noisy.cur>>, "scramble")

\* lines 67-68: the rectangle's origin and size
MoshDrawsOk(w, h) ==
  /\ RandintOk(0, w \div 4) /\ RandintOk(0, h \div 4)
  /\ RandintOk(w \div 2, w) /\ RandintOk(h \div 2, h)

\* a slip: the glitched frame is kept instead of the input
PrevFrameKeptCurrent(st) == st.cur

\* line 70: what is kept for the next call's datamosh
PrevFrameKept(st) == st.frame

\* lines 64-70: the datamosh from prev_frame, then prev_frame is replaced
Datamosh(st, w, h, g) ==
  IF st.raised THEN st
  ELSE LET prev == st.persistence.prev_frame
           fire == prev # NoneFrame /\ g.mosh
           done == IF fire
                   THEN WriteInto(st, <<"mosh", st.cur, prev>>, "mosh")
                   ELSE st
       IN  IF fire /\ ~MoshDrawsOk(w, h) THEN Raise(st)
           ELSE [done EXCEPT !.persistence.prev_frame = PrevFrameKept(done)]

\* lines 74-75: the block's size and position (block_w < w // 2)
BlockDrawsOk(w, h) ==
  /\ RandintOk(w \div 10, w \div 2) /\ RandintOk(h \div 10, h \div 2)
  /\ \A bw \in (w \div 10) .. ((w \div 2) - 1) : RandintOk(0, w - bw)
  /\ \A bh \in (h \div 10) .. ((h \div 2) - 1) : RandintOk(0, h - bh)

\* lines 73-79: a block of one random colour
BlockOverwrite(st, w, h, g) ==
  IF st.raised \/ ~g.block THEN st
  ELSE IF ~BlockDrawsOk(w, h) THEN Raise(st)
  ELSE WriteInto(st, <<"block", st.cur>>, "block")

\* a slip: the input frame is kept instead of the result
FeedbackFrameKeptInput(st) == st.frame

\* line 94: what is kept for the next call's feedback
FeedbackFrameKept(st) == st.cur

\* lines 82-94: the blend with the warped feedback_frame, which is replaced
Feedback(st, g) ==
  IF st.raised THEN st
  ELSE LET fb == st.persistence.feedback_frame
           fire == fb # NoneFrame /\ g.feedback
           done == IF fire
                   THEN Rebind(st, <<"feedback", st.cur, fb>>, "feedback")
                   ELSE st
       IN  [done EXCEPT !.persistence.feedback_frame = FeedbackFrameKept(done)]

\* lines 26-96: the call; ret is the frame returned (NoneFrame when raised)
apply_ultra_glitch(frame, persistence, w, h, g) ==
  LET s0 == Enter(frame, persistence)
      s1 == ChannelDisplace(s0, g)
      s2 == NoiseAndScramble(s1, w, h, g)
      s3 == Datamosh(s2, w, h, g)
      s4 == BlockOverwrite(s3, w, h, g)
      s5 == Feedback(s4, g)
  IN  [ret |-> IF s5.raised THEN NoneFrame ELSE s5.cur,
       frame |-> s5.frame,
       persistence |-> s5.persistence,
       fired |-> s5.fired,
       raised |-> s5.raised]

(***************************************************************************)
(* main, process_videos.py, from line 124 on                               *)
(***************************************************************************)
\* the gate outcomes tried in main's loop: nothing fires, everything fires,
\* only the two transforms with memory fire
MainGateSet ==
  { [chan |-> FALSE, noise |-> FALSE, scramble |-> FALSE,
     mosh |-> FALSE, block |-> FALSE, feedback |-> FALSE],
    [chan |-> TRUE, noise |-> TRUE, scramble |-> TRUE,
     mosh |-> TRUE, block |-> TRUE, feedback |-> TRUE],
    [chan |-> FALSE, noise |-> FALSE, scramble |-> FALSE,
     mosh |-> TRUE, block |-> FALSE, feedback |-> TRUE] }

\* final_frame.tobytes(): width * height * 3 bytes
FrameBytes == width * height * 3

\* io.BufferedWriter.write(data) on the pipe: data that fits the free part of
\* the buffer is only copied; otherwise the held bytes are flushed to the
\* pipe, then data longer than the buffer is written to the pipe and shorter
\* data is held.  A write to the pipe of an encoder that has exited raises
\* BrokenPipeError, and the bytes held stay held.
StdinWrite(n) ==
  IF stdin_pending + n <= STDIN_BUFFER_SIZE
  THEN [raised |-> FALSE, pending |-> stdin_pending + n]
  ELSE IF ~encoder_alive /\ (stdin_pending > 0 \/ n > STDIN_BUFFER_SIZE)
       THEN [raised |-> TRUE, pending |-> stdin_pending]
       ELSE [raised |-> FALSE,
             pending |-> IF n > STDIN_BUFFER_SIZE THEN 0 ELSE n]

\* io.BufferedWriter.close(): flushes the held bytes, closes the pipe end
\* whether or not the flush raised, and lets the flush's exception through
StdinClose ==
  [raised |-> stdin_pending > 0 /\ ~encoder_alive,
   pending |-> IF encoder_alive THEN 0 ELSE stdin_pending]

InitMainCommon ==
  /\ encoder_alive = TRUE /\ stdin_pending = 0 /\ stdin_closed = FALSE
  /\ base_pos = 0 /\ overlay_pos = 0
  /\ frame1 = NoneFrame /\ frame2 = NoneFrame
  /\ frame1_fx = NoneFrame /\ frame2_fx = NoneFrame
  /\ frame1_after = NoneFrame
  /\ persistence1 = EmptyPersistence /\ persistence2 = EmptyPersistence
  /\ fired1 = <<>> /\ fired2 = <<>>
  /\ frames_written = 0 /\ write_failed = FALSE
  /\ base_released = FALSE /\ overlay_released = FALSE /\ waited = FALSE
  /\ error = "none"

\* the state at line 142, before the first iteration
InitMain ==
  /\ InitMainCommon
  /\ \E size \in SizeSet : width = size[1] /\ height = size[2]
  /\ base_frames \in 0 .. MaxFrames
  /\ overlay_frames \in 0 .. MaxFrames
  /\ mpc = "read"

\* the encoder may exit at any time while main runs
EncoderExits ==
  /\ mpc \in {"read", "glitch1", "glitch2", "write", "cleanup", "close"}
  /\ encoder_alive
  /\ encoder_alive' = FALSE
  /\ UNCHANGED <<mainCfg, stdin_pending, stdin_closed, mpc, base_pos,
                 overlay_pos, mainFrames, mainState, frames_written,
                 write_failed, mainEnd, error>>
  /\ UNCHANGED <<chromaVars, pixelVars>>

\* lines 143-146: read one frame of each video; stop when either has none
ReadFrames ==
  /\ mpc = "read"
  /\ LET ret1 == base_pos < base_frames
         ret2 == overlay_pos < overlay_frames
     IN  /\ frame1' = IF ret1 THEN <<"src", 1, base_pos>> ELSE NoneFrame
         /\ frame2' = IF ret2 THEN <<"src", 2, overlay_pos>> ELSE NoneFrame
         /\ base_pos' = IF ret1 THEN base_pos + 1 ELSE base_pos
         /\ overlay_pos' = IF ret2 THEN overlay_pos + 1 ELSE overlay_pos
         /\ mpc' = IF ~ret1 \/ ~ret2 THEN "cleanup" ELSE "glitch1"
  /\ UNCHANGED <<mainCfg, mainPipe, frame1_fx, frame2_fx, frame1_after,
                 mainState, frames_written, write_failed, mainEnd, error>>
  /\ UNCHANGED <<chromaVars, pixelVars>>

\* line 151: frame1_fx = apply_ultra_glitch(frame1, persistence1)
GlitchBase ==
  /\ mpc = "glitch1"
  /\ \E g \in MainGateSet :
       LET r == apply_ultra_glitch(frame1, persistence1, width, height, g)
       IN  /\ frame1_fx' = r.ret
           /\ frame1_after' = r.frame
           /\ persistence1' = r.persistence
           /\ fired1' = r.fired
           /\ mpc' = IF r.raised THEN "crashed" ELSE "glitch2"
           /\ error' = IF r.raised THEN "ValueError" ELSE error
  /\ UNCHANGED <<mainCfg, mainPipe, base_pos, overlay_pos, frame1, frame2,
                 frame2_fx, persistence2, fired2, frames_written,
                 write_failed, mainEnd>>
  /\ UNCHANGED <<chromaVars, pixelVars>>

\* a slip: the base frame is resized and passed on
ResizedFrame1 == <<"resize", frame1>>

\* line 154: resized_frame2 = cv2.resize(frame2, (width, height))
resized_frame2 == <<"resize", frame2>>

\* lines 154-155: resize the overlay frame, then glitch it
GlitchOverlay ==
  /\ mpc = "glitch2"
  /\ \E g \in MainGateSet :
       LET r == apply_ultra_glitch(resized_frame2, persistence2, width,
                                   height, g)
       IN  /\ frame2_fx' = r.ret
           /\ persistence2' = r.persistence
           /\ fired2' = r.fired
           /\ mpc' = IF r.raised THEN "crashed" ELSE "write"
           /\ error' = IF r.raised THEN "ValueError" ELSE error
  /\ UNCHANGED <<mainCfg, mainPipe, base_pos, overlay_pos, frame1, frame2,
                 frame1_fx, frame1_after, persistence1, fired1,
                 frames_written, write_failed, mainEnd>>
  /\ UNCHANGED <<chromaVars, pixelVars>>

\* lines 158-166: blend the two frames and write the result to the encoder;
\* BrokenPipeError and IOError end the loop
WriteFrame ==
  /\ mpc = "write"
  /\ LET w == StdinWrite(FrameBytes)
     IN  /\ stdin_pending' = w.pending
         /\ write_failed' = w.raised
         /\ frames_written' =
              IF w.raised THEN frames_written ELSE frames_written + 1
         /\ mpc' = IF w.raised THEN "cleanup" ELSE "read"
  /\ UNCHANGED <<mainCfg, encoder_alive, stdin_closed, base_pos, overlay_pos,
                 mainFrames, mainState, mainEnd, error>>
  /\ UNCHANGED <<chromaVars, pixelVars>>

\* lines 169-170: release both captures
ReleaseCaptures ==
  /\ mpc = "cleanup"
  /\ base_released' = TRUE
  /\ overlay_released' = TRUE
  /\ mpc' = "close"
  /\ UNCHANGED <<mainCfg, mainPipe, base_pos, overlay_pos, mainFrames,
                 mainState, frames_written, write_failed, waited, error>>
  /\ UNCHANGED <<chromaVars, pixelVars>>

\* lines 171-172: process.stdin.close(), outside any try
CloseStdin ==
  /\ mpc = "close"
  /\ LET c == StdinClose
     IN  /\ stdin_closed' = TRUE
         /\ stdin_pending' = c.pending
         /\ mpc' = IF c.raised THEN "crashed" ELSE "wait"
         /\ error' = IF c.raised THEN "BrokenPipeError" ELSE error
  /\ UNCHANGED <<mainCfg, encoder_alive, base_pos, overlay_pos, mainFrames,
                 mainState, frames_written, write_failed, mainEnd>>
  /\ UNCHANGED <<chromaVars, pixelVars>>

\* lines 173-177: process.wait() returns once the encoder, at the end of
\* its input, has exited; the temporary overlay is removed
WaitEncoder ==
  /\ mpc = "wait"
  /\ encoder_alive' = FALSE
  /\ waited' = TRUE
  /\ mpc' = "done"
  /\ UNCHANGED <<mainCfg, stdin_pending, stdin_closed, base_pos, overlay_pos,
                 mainFrames, mainState, frames_written, write_failed,
                 base_released, overlay_released, error>>
  /\ UNCHANGED <<chromaVars, pixelVars>>

(***************************************************************************)
(* One stream of calls of apply_ultra_glitch, every gate outcome tried.    *)
(***************************************************************************)
InitStream ==
  /\ InitMainCommon
  /\ \E size \in SizeSet : width = size[1] /\ height = size[2]
  /\ base_frames = MaxCalls
  /\ overlay_frames = 0
  /\ mpc = "stream"

\* frame k of the stream goes through apply_ultra_glitch with persistence1
StreamCall ==
  /\ mpc = "stream"
  /\ base_pos < base_frames
  /\ \E g \in GateSet :
       LET input == <<"src", 1, base_pos>>
           r == apply_ultra_glitch(input, persistence1, width, height, g)
       IN  /\ frame1' = input
           /\ frame1_fx' = r.ret
           /\ frame1_after' = r.frame
           /\ persistence1' = r.persistence
           /\ fired1' = r.fired
           /\ mpc' = IF r.raised THEN "crashed" ELSE "stream"
           /\ error' = IF r.raised THEN "ValueError" ELSE error
  /\ base_pos' = base_pos + 1
  /\ UNCHANGED <<mainCfg, mainPipe, overlay_pos, frame2, frame2_fx,
                 persistence2, fired2, frames_written, write_failed,
                 mainEnd>>
  /\ UNCHANGED <<chromaVars, pixelVars>>

(***************************************************************************)
(* The arithmetic on one pixel: the mask and the composite of              *)
(* process_video (random_chroma.py, lines 203-227) and the blend of main   *)
(* (process_videos.py, line 158).  A pixel is <<b, g, r>>, each 0..255.    *)
(* The mask is kept as the integer mask * tol, so MaskOne is the value 1.0 *)
(* and the distance is its integer part, which is 0 only for equal pixels. *)
(***************************************************************************)
Pixels == [1 .. 3 -> ChannelSet]
BlackPixel == <<0, 0, 0>>

\* the integer part of the square root
Isqrt(x) == CHOOSE r \in 0 .. (3 * 255) : r * r <= x /\ x < (r + 1) * (r + 1)

\* line 206-207: np.linalg.norm(f - c, axis=2)
Dist(p, q) ==
  Isqrt((p[1] - q[1]) * (p[1] - q[1]) + (p[2] - q[2]) * (p[2] - q[2])
        + (p[3] - q[3]) * (p[3] - q[3]))

\* line 208: tol = max(1.0, float(TOLERANCE))
Tol == Max(1, TOLERANCE)
MaskOne == Tol

\* a slip: the clip is forgotten
NoClip(x, lo, hi) == x

\* np.clip(x, lo, hi)
Clip(x, lo, hi) == IF x < lo THEN lo ELSE IF x > hi THEN hi ELSE x

\* lines 204-210: mask = clip(1.0 - dist / tol, 0.0, 1.0), times tol
MaskAt(p, key) == Clip(MaskOne - Dist(p, key), 0, MaskOne)

\* a slip: the two frames change places
BlendChannelSwapped(x, y, m) ==
  Clip((y * (MaskOne - m) + x * m) \div MaskOne, 0, 255)

\* lines 226-227 on one channel: f * (1 - alpha) + bg_f * alpha, clipped to
\* 0..255 and cut to uint8
BlendChannel(x, y, m) ==
  Clip((x * (MaskOne - m) + y * m) \div MaskOne, 0, 255)

\* lines 219-227: the composite; black stands in for a missing background
Composite(p, bg, m) ==
  LET bg_f == IF bg = <<>> THEN BlackPixel ELSE bg
  IN  [ch \in 1 .. 3 |-> BlendChannel(p[ch], bg_f[ch], m)]

\* cv2.addWeighted(a, alpha, b, beta, 0) with the weights in tenths: the sum
\* rounded to nearest and saturated to 0..255
AddWeighted(a, alpha, b, beta) ==
  [ch \in 1 .. 3 |-> Clip(PyRound(a[ch] * alpha + b[ch] * beta, 10), 0, 255)]

\* no pixel is being followed
PixelIdle ==
  /\ ppc = "idle" /\ TOLERANCE = 0
  /\ px_f = BlackPixel /\ px_c = BlackPixel /\ px_bg = <<>>
  /\ mask = 0 /\ final = BlackPixel
  /\ px_a = BlackPixel /\ px_b = BlackPixel /\ final_frame = BlackPixel
  /\ blend_w = 0

\* a pixel of process_video's frame before line 203, or a pixel of main's
\* two glitched frames before line 158
InitPixel ==
  /\ mask = 0 /\ final = BlackPixel /\ final_frame = BlackPixel
  /\ blend_w = 0
  /\ \/ /\ ppc = "mask"
        /\ TOLERANCE \in ToleranceSet
        /\ px_f \in Pixels /\ px_c \in Pixels
        /\ px_bg \in Pixels \cup {<<>>}
        /\ px_a = BlackPixel /\ px_b = BlackPixel
     \/ /\ ppc = "blend"
        /\ TOLERANCE = 0
        /\ px_f = BlackPixel /\ px_c = BlackPixel /\ px_bg = <<>>
        /\ px_a \in Pixels /\ px_b \in Pixels

\* lines 203-210: the mask before the blur
ComputeMask ==
  /\ ppc = "mask"
  /\ mask' = MaskAt(px_f, px_c)
  /\ ppc' = "blur"
  /\ UNCHANGED <<TOLERANCE, px_f, px_c, px_bg, final, px_a, px_b,
                 blend_w, final_frame>>
  /\ UNCHANGED <<chromaVars, mainVars>>

\* lines 212-215: the Gaussian blur leaves at the pixel a weighted mean of
\* the masks around it, which can be any value from 0.0 to 1.0
BlurMask ==
  /\ ppc = "blur"
  /\ mask' \in {0, mask, MaskOne \div 2, MaskOne}
  /\ ppc' = "composite"
  /\ UNCHANGED <<TOLERANCE, px_f, px_c, px_bg, final, px_a, px_b,
                 blend_w, final_frame>>
  /\ UNCHANGED <<chromaVars, mainVars>>

\* lines 217-227: final at the pixel
CompositePixel ==
  /\ ppc = "composite"
  /\ final' = Composite(px_f, px_bg, mask)
  /\ ppc' = "written"
  /\ UNCHANGED <<TOLERANCE, px_f, px_c, px_bg, mask, px_a, px_b,
                 blend_w, final_frame>>
  /\ UNCHANGED <<chromaVars, mainVars>>

\* line 158: final_frame = cv2.addWeighted(frame1_fx, 0.4, frame2_fx, 0.6, 0),
\* followed for main's weights and for the two ends of the weight's range
BlendFrames ==
  /\ ppc = "blend"
  /\ \E alpha \in WeightSet :
       /\ blend_w' = alpha
       /\ final_frame' = AddWeighted(px_a, alpha, px_b, 10 - alpha)
  /\ ppc' = "blended"
  /\ UNCHANGED <<TOLERANCE, px_f, px_c, px_bg, mask, final, px_a, px_b>>
  /\ UNCHANGED <<chromaVars, mainVars>>

(***************************************************************************)
(* The specifications.                                                     *)
(***************************************************************************)
\* main has not been started
MainIdle ==
  /\ InitMainCommon
  /\ width = 0 /\ height = 0
  /\ base_frames = 0 /\ overlay_frames = 0
  /\ mpc = "idle"

\* process_video has not been started
ChromaIdle ==
  /\ MAX_OUTPUT_FRAMES = 0 /\ MAX_OUTPUT_SECONDS = 0 /\ OUTPUT_FPS = 0
  /\ CHANGE_INTERVAL_FRAMES = 1 /\ TRANSITION_FRAMES = 0
  /\ fps_reported = 0 /\ total_fg_frames = 0 /\ total_bg_frames = 0
  /\ bg_decodable = 0 /\ frame_bytes = 0
  /\ pc = "idle"
  /\ cap_fg = "none" /\ cap_bg = "none" /\ out = "none"
  /\ max_frames = None /\ bg_step = 1 /\ preload = FALSE /\ fg_loaded = 0
  /\ bg_frame_idx = 0 /\ frame_count = 0
  /\ current_color = 0 /\ target_color = 0 /\ transition_progress = 0
  /\ ret_bg = FALSE /\ frame_bg = NoFrame /\ retried = FALSE
  /\ fg_frame = "none" /\ mask_color = 0 /\ written = 0

Init == InitChroma /\ MainIdle /\ PixelIdle

Next ==
  \/ OpenSources
  \/ OpenFailed
  \/ Setup
  \/ ReachedMax
  \/ ReadBackground
  \/ SelectForeground
  \/ UpdateTarget
  \/ AdvanceTransition
  \/ Emit
  \/ Release

Spec == Init /\ [][Next]_vars

\* process_video is sequential code: whenever a next statement exists it runs
FairSpec == Spec /\ WF_vars(Next)

MainNext ==
  \/ EncoderExits
  \/ ReadFrames
  \/ GlitchBase
  \/ GlitchOverlay
  \/ WriteFrame
  \/ ReleaseCaptures
  \/ CloseStdin
  \/ WaitEncoder

MainInit == ChromaIdle /\ InitMain /\ PixelIdle

MainSpec == MainInit /\ [][MainNext]_vars

StreamNext == StreamCall

StreamInit == ChromaIdle /\ InitStream /\ PixelIdle

StreamSpec == StreamInit /\ [][StreamNext]_vars

PixelNext ==
  \/ ComputeMask
  \/ BlurMask
  \/ CompositePixel
  \/ BlendFrames

PixelSpecInit == ChromaIdle /\ MainIdle /\ InitPixel

PixelSpec == PixelSpecInit /\ [][PixelNext]_vars

(***************************************************************************)
(* The claims.                                                             *)
(***************************************************************************)
\* the state between two iterations of process_video's loop, after a frame
EndOfFrame == pc = "loop" /\ written >= 1

\* process_video's loop was entered and has been left
LoopLeft == pc \in {"release", "done"} /\ out # "none"

\* C1: every run of process_video's frame loop eventually leaves the loop
\* and reaches the release step, whatever the caps are.
C1_LoopEnds == [](pc = "loop" => <>(pc = "release"))

\* C3: whenever process_video has returned, release was called on both
\* captures and, if the writer was opened, on the writer.
C3_ReleasedOnReturn ==
  pc = "done" =>
    /\ cap_fg = "released"
    /\ cap_bg = "released"
    /\ (out # "none" => out = "released")

\* C4: with a cap of N > 0 frames and a background of N frames that all
\* decode, never more than N frames are written, exactly N are written when
\* the loop has ended, the rewind-and-retry path is never taken, and the loop
\* ends.
C4_Pre ==
  /\ max_frames # None /\ max_frames > 0
  /\ total_bg_frames = max_frames
  /\ bg_decodable = max_frames
C4_Safe ==
  C4_Pre =>
    /\ written <= max_frames
    /\ ~retried
    /\ (pc \in {"release", "done"} => written = max_frames)
C4_ExactlyN ==
  [](C4_Safe) /\ [](C4_Pre => <>(pc \in {"release", "done"}))
C4_Witness ==
  C4_Pre /\ pc = "release" /\ max_frames = 2 /\ written = 2 /\ bg_step = 2

\* C5 as stated: with a background shorter than the foreground that decodes
\* at least one frame, the loop ends without error having written
\* max(len(fg), max_output_frames) frames, and the frame after the
\* background's last frame is its first.
C5_Original ==
  (total_bg_frames < total_fg_frames /\ bg_decodable >= 1) =>
    /\ LoopLeft =>
         /\ max_frames # None /\ frame_count >= max_frames
         /\ written = Max(total_fg_frames,
                          IF max_frames = None THEN 0 ELSE max_frames)
    /\ (/\ pc = "foreground" /\ total_bg_frames > 0 /\ frame_count >= 2
        /\ (bg_frame_idx - 2 * bg_step) % total_bg_frames
             = total_bg_frames - 1)
       => frame_bg = 0

\* C5 as amended: with a background shorter than the foreground that decodes
\* at least one frame, the loop is left only through the frame cap, with
\* exactly max_frames frames written; output frame k (k = 1, 2, ...) uses the
\* background frame at ((k - 1) * bg_step) mod total_bg_frames, or frame 0
\* when that position does not decode.
C5_Amended ==
  (total_bg_frames < total_fg_frames /\ bg_decodable >= 1) =>
    /\ LoopLeft => (max_frames # None /\ written = max_frames)
    /\ pc = "foreground" =>
         LET pos == ((frame_count - 1) * bg_step) % total_bg_frames
         IN  frame_bg = IF pos < bg_decodable THEN pos ELSE 0
C5_Witness ==
  /\ total_bg_frames = 2 /\ bg_decodable = 2 /\ total_fg_frames = 3
  /\ bg_step = 1 /\ max_frames = 3
  /\ pc = "foreground" /\ frame_count = 3 /\ frame_bg = 0

\* C7 as stated: at the end of every output frame, with
\* CHANGE_INTERVAL_FRAMES >= 1, transition_progress is 1.0 if and only if
\* current_color equals target_color.
C7_Original ==
  (EndOfFrame /\ CHANGE_INTERVAL_FRAMES >= 1) =>
    ((transition_progress = ProgressOne) <=> (current_color = target_color))

\* C7 as amended: at the end of every output frame, with
\* CHANGE_INTERVAL_FRAMES >= 1, transition_progress being 1.0 implies that
\* current_color equals target_color (not the converse).
C7_Amended ==
  (EndOfFrame /\ CHANGE_INTERVAL_FRAMES >= 1) =>
    (transition_progress = ProgressOne => current_color = target_color)
C7_Witness ==
  /\ EndOfFrame /\ TRANSITION_FRAMES = 2 /\ CHANGE_INTERVAL_FRAMES = 2
  /\ frame_count = 3 /\ transition_progress = ProgressOne

\* C8: transition_progress decreases only when the target update of a frame
\* with frame_count % max(1, CHANGE_INTERVAL_FRAMES) = 0 resets it to 0; that
\* update resets it on every such frame and leaves it alone on every other;
\* and current_color equals target_color whenever it is 1.0 or more.
C8_Progress ==
  /\ [][transition_progress' < transition_progress =>
          /\ pc = "target"
          /\ frame_count % Max(1, CHANGE_INTERVAL_FRAMES) = 0
          /\ transition_progress' = 0]_vars
  /\ [][pc = "target" =>
          IF frame_count % Max(1, CHANGE_INTERVAL_FRAMES) = 0
          THEN transition_progress' = 0
          ELSE transition_progress' = transition_progress]_vars
  /\ [](transition_progress >= Max(1, TRANSITION_FRAMES) =>
          current_color = target_color)
C8_Witness ==
  /\ pc = "transition" /\ transition_progress = 0
  /\ TRANSITION_FRAMES = 2 /\ CHANGE_INTERVAL_FRAMES = 2 /\ frame_count = 2

\* C9: with TRANSITION_FRAMES = 0 the colour of every frame's mask is the
\* target colour, and it differs from the previous frame's only on a frame
\* with frame_count % max(1, CHANGE_INTERVAL_FRAMES) = 0.
C9_StepFunction ==
  /\ []((TRANSITION_FRAMES = 0 /\ EndOfFrame) => mask_color = target_color)
  /\ [][(/\ TRANSITION_FRAMES = 0 /\ pc = "emit" /\ written >= 1
         /\ mask_color' # mask_color)
        => frame_count % Max(1, CHANGE_INTERVAL_FRAMES) = 0]_vars
C9_Witness ==
  /\ TRANSITION_FRAMES = 0 /\ CHANGE_INTERVAL_FRAMES = 2
  /\ EndOfFrame /\ frame_count = 2 /\ mask_color = 1

\* main's loop has been left, by break or by an exception
MainLoopLeft == mpc \in {"cleanup", "close", "wait", "done", "crashed"}

\* C2: once a write to the encoder has failed, no further frame is read,
\* glitched or written, no exception leaves main, and main ends with both
\* captures released and the encoder's stdin closed and waited on.
C2_WriteFailureHandled ==
  write_failed =>
    /\ base_pos = frames_written + 1
    /\ overlay_pos = frames_written + 1
    /\ mpc \in {"cleanup", "close", "wait", "done"}
    /\ error = "none"
    /\ mpc = "done" =>
         base_released /\ overlay_released /\ stdin_closed /\ waited

\* C6: when no write fails, main's loop is left having written exactly
\* min(N1, N2) frames.
C6_ShorterSourceDecides ==
  (MainLoopLeft /\ ~write_failed) =>
    frames_written = Min(base_frames, overlay_frames)

\* C10: after a call of apply_ultra_glitch has returned, whatever gates
\* fired, persistence['prev_frame'] is the frame that was passed in and
\* persistence['feedback_frame'] is the frame that was returned.
C10_StateAfterCall ==
  (mpc = "stream" /\ base_pos >= 1) =>
    /\ persistence1.prev_frame = frame1
    /\ persistence1.feedback_frame = frame1_fx
C10_Witness ==
  /\ mpc = "stream" /\ base_pos = 2
  /\ fired1 = <<"chan", "noise", "scramble", "mosh", "block", "feedback">>

\* the frame a transform read from the persistence dict while frame term was
\* computed: the second operand of the outermost application of name, or
\* NoneFrame when the transform did not fire
RECURSIVE ReadBy(_, _)
ReadBy(term, name) ==
  IF term = NoneFrame \/ term[1] = "src" THEN NoneFrame
  ELSE IF term[1] = name THEN term[3]
  ELSE ReadBy(term[2], name)

\* name is among the transforms that fired
Fired(fired, name) == \E i \in 1 .. Len(fired) : fired[i] = name

\* C11: on a stream of calls that starts from an empty persistence dict,
\* neither the datamosh nor the feedback fires on the first call, and on a
\* later call the datamosh reads the input frame of the call before and the
\* feedback reads the frame the call before returned.
C11_ReadsOwnStream ==
  [][(mpc = "stream" /\ mpc' = "stream") =>
       /\ Fired(fired1', "mosh") =>
            (base_pos >= 1 /\ ReadBy(frame1_fx', "mosh") = frame1)
       /\ Fired(fired1', "feedback") =>
            (base_pos >= 1 /\ ReadBy(frame1_fx', "feedback") = frame1_fx)
       /\ base_pos = 0 =>
            (ReadBy(frame1_fx', "mosh") = NoneFrame
             /\ ReadBy(frame1_fx', "feedback") = NoneFrame)]_vars
C11_Witness ==
  /\ mpc = "stream" /\ base_pos = 2
  /\ Fired(fired1, "mosh") /\ Fired(fired1, "feedback")
  /\ ReadBy(frame1_fx, "mosh") = <<"src", 1, 0>>
  /\ ReadBy(frame1_fx, "feedback") # NoneFrame

\* the streams whose decoded frames a frame term was computed from
RECURSIVE Streams(_)
Streams(term) ==
  IF term = NoneFrame THEN {}
  ELSE IF term[1] = "src" THEN {term[2]}
  ELSE IF Len(term) = 2 THEN Streams(term[2])
  ELSE Streams(term[2]) \cup Streams(term[3])

\* the streams a persistence dict's frames were computed from
StreamsOf(persistence) ==
  Streams(persistence.prev_frame) \cup Streams(persistence.feedback_frame)

\* C12: in main the call on the base frame leaves persistence2 as it was,
\* the call on the overlay frame leaves persistence1 as it was, and each
\* dict only ever holds frames computed from its own stream's frames.
C12_DisjointState ==
  /\ [][mpc = "glitch1" => persistence2' = persistence2]_vars
  /\ [][mpc = "glitch2" => persistence1' = persistence1]_vars
  /\ [](StreamsOf(persistence1) \subseteq {1})
  /\ [](StreamsOf(persistence2) \subseteq {2})
  /\ [](Streams(frame1_fx) \subseteq {1} /\ Streams(frame2_fx) \subseteq {2})
C12_Witness ==
  /\ mpc = "write" /\ base_pos = 2
  /\ Fired(fired1, "mosh") /\ Fired(fired1, "feedback")
  /\ Fired(fired2, "mosh") /\ Fired(fired2, "feedback")
  /\ StreamsOf(persistence1) = {1} /\ StreamsOf(persistence2) = {2}

\* C13: a call of apply_ultra_glitch in which no gate fires returns a frame
\* equal to its input, whatever the persistence dict held, and no call
\* changes the frame object it was given.
C13_NoGateIdentity ==
  (mpc = "stream" /\ base_pos >= 1) =>
    /\ fired1 = <<>> => frame1_fx = frame1
    /\ frame1_after = frame1
C13_Witness ==
  /\ mpc = "stream" /\ base_pos = 2 /\ fired1 = <<>>
  /\ frame1_fx = <<"src", 1, 1>>
  /\ persistence1.feedback_frame = frame1_fx
  /\ persistence1.prev_frame = frame1

\* C14: whatever the frame size and the gate outcomes, every draw of
\* apply_ultra_glitch has a non-empty range, so no call raises.
C14_NeverRaises == mpc # "crashed" /\ error = "none"

\* C15: the composite of process_video returns the foreground pixel where
\* the mask is 0 and the background pixel where the mask is 1, and the
\* weighted blend returns its first frame at weight 1 and its second at
\* weight 0.
C15_BlendIdentities ==
  /\ (ppc = "written" /\ mask = 0) => final = px_f
  /\ (ppc = "written" /\ mask = MaskOne) =>
       final = (IF px_bg = <<>> THEN BlackPixel ELSE px_bg)
  /\ (ppc = "blended" /\ blend_w = 10) => final_frame = px_a
  /\ (ppc = "blended" /\ blend_w = 0) => final_frame = px_b
C15_Witness ==
  /\ ppc = "written" /\ TOLERANCE = 80 /\ mask = MaskOne
  /\ px_f = <<0, 50, 255>> /\ px_bg = <<255, 50, 0>> /\ final = px_bg

\* C16: the mask before the blur lies between 0 and 1, and is 1 at a pixel
\* that equals the colour the mask is made for.
C16_MaskRange ==
  ppc = "blur" =>
    /\ 0 <= mask /\ mask <= MaskOne
    /\ px_f = px_c => mask = MaskOne
C16_Witness ==
  /\ ppc = "blur" /\ TOLERANCE = 80
  /\ px_f = <<50, 0, 255>> /\ px_c = px_f /\ mask = MaskOne

\* C17 as stated: with CHANGE_INTERVAL_FRAMES >= 1, the target update of the
\* output frame with 0-based index i (frame_count - 1) resets
\* transition_progress to 0 if i mod CHANGE_INTERVAL_FRAMES = 0, the first
\* frame included, and otherwise leaves the target and the progress alone.
C17_Original ==
  [][(pc = "target" /\ CHANGE_INTERVAL_FRAMES >= 1) =>
       IF (frame_count - 1) % CHANGE_INTERVAL_FRAMES = 0
       THEN transition_progress' = 0
       ELSE /\ transition_progress' = transition_progress
            /\ target_color' = target_color]_vars

\* C17 as amended: with CHANGE_INTERVAL_FRAMES >= 1, the target update of
\* the output frame numbered n from 1 (frame_count) resets
\* transition_progress to 0 if n mod CHANGE_INTERVAL_FRAMES = 0, and
\* otherwise leaves the target and the progress alone; the first output
\* frame is such a frame only when CHANGE_INTERVAL_FRAMES = 1.
C17_Amended ==
  [][(pc = "target" /\ CHANGE_INTERVAL_FRAMES >= 1) =>
       /\ IF frame_count % CHANGE_INTERVAL_FRAMES = 0
          THEN transition_progress' = 0
          ELSE /\ transition_progress' = transition_progress
               /\ target_color' = target_color
       /\ (frame_count = 1 /\ CHANGE_INTERVAL_FRAMES > 1) =>
            (transition_progress' = ProgressOne
             /\ target_color' = current_color)]_vars
C17_Witness ==
  /\ pc = "transition" /\ CHANGE_INTERVAL_FRAMES = 2 /\ frame_count = 1
  /\ written = 0 /\ transition_progress = ProgressOne
  /\ target_color = current_color

\* the loop goes into an iteration: the cap is not reached
IterationStarts ==
  pc = "loop" /\ ~(max_frames # None /\ frame_count >= max_frames)

\* the background read of the iteration fails at the position it asks for
FirstReadFails ==
  /\ IterationStarts
  /\ total_bg_frames > 0
  /\ (bg_frame_idx % total_bg_frames) >= bg_decodable

\* C18: a failed background read is retried once from frame 0, and only a
\* failed read is; when the retry succeeds the iteration goes on with frame
\* 0 and emits one frame; when it fails the loop ends with nothing emitted
\* and the frame counter as it was.
C18_RetryOnce ==
  /\ [][(IterationStarts /\ pc' # "loop") =>
         /\ retried' <=> FirstReadFails
         /\ (FirstReadFails /\ bg_decodable >= 1) =>
              (ret_bg' /\ frame_bg' = 0 /\ pc' = "foreground")
         /\ (FirstReadFails /\ bg_decodable = 0) =>
              (/\ ~ret_bg' /\ pc' = "release"
               /\ written' = written /\ frame_count' = frame_count)]_vars
  /\ [][(retried /\ pc \in {"foreground", "target", "transition", "emit"}) =>
         /\ pc' = CASE pc = "foreground" -> "target"
                    [] pc = "target" -> "transition"
                    [] pc = "transition" -> "emit"
                    [] pc = "emit" -> "loop"
         /\ written' = IF pc = "emit" THEN written + 1 ELSE written
         /\ frame_bg' = 0 /\ ret_bg']_vars
C18_Witness ==
  /\ pc = "loop" /\ retried /\ ret_bg /\ frame_bg = 0
  /\ total_bg_frames = 2 /\ bg_decodable = 1 /\ bg_step = 1
  /\ frame_count = 2 /\ written = 2

\* process_video is in its frame loop or past it
SetupDone == out # "none" /\ pc \notin {"start", "opened", "idle"}

\* C19: bg_step is max(1, round(src_fps / out_fps)) from the setup on and
\* never changes; before output frame k (counted from 0) is read
\* bg_frame_idx is k * bg_step, and the frame read for it is the one at
\* (k * bg_step) mod total_bg_frames, the rewind being taken just when that
\* position does not decode, whatever happened in earlier iterations.
C19_Stride ==
  /\ [](SetupDone =>
          LET src == IF fps_reported = 0 THEN DEFAULT_SRC_FPS
                     ELSE fps_reported
              dst == IF OUTPUT_FPS > 0 THEN OUTPUT_FPS ELSE src
          IN  bg_step = Max(1, PyRound(src, dst)))
  /\ [][SetupDone => bg_step' = bg_step]_vars
  /\ []((pc = "loop" /\ total_bg_frames > 0) =>
          bg_frame_idx = frame_count * bg_step)
  /\ []((pc = "foreground" /\ total_bg_frames > 0) =>
          LET pos == ((frame_count - 1) * bg_step) % total_bg_frames
          IN  IF retried THEN pos >= bg_decodable /\ frame_bg = 0
              ELSE frame_bg = pos)
C19_Witness ==
  /\ pc = "foreground" /\ ~retried /\ frame_count = 3 /\ frame_bg = 0
  /\ total_bg_frames = 2 /\ bg_decodable = 1 /\ bg_step = 1
  /\ fps_reported = 3 /\ OUTPUT_FPS = 0

\* the transforms in the order of the function's text
TransformOrder == <<"chan", "noise", "scramble", "mosh", "block", "feedback">>

\* the transforms a gate outcome names, in that order
Chosen(g) == SelectSeq(TransformOrder, LAMBDA name : g[name])

\* the stream's next call can return with exactly the transforms of g fired:
\* some outcome of its draws makes it do so
CanFire(g) ==
  \E draws \in GateSet :
    LET r == apply_ultra_glitch(<<"src", 1, base_pos>>, persistence1, width,
                                height, draws)
    IN  ~r.raised /\ r.fired = Chosen(g)

\* a call is about to be made on a frame large enough for every draw
BeforeCall ==
  mpc = "stream" /\ base_pos < base_frames /\ width >= 4 /\ height >= 10

\* C20 as stated: every subset of the six transforms can fire in one call,
\* datamosh and feedback only needing a call before it.
C20_Original ==
  BeforeCall =>
    \A g \in GateSet :
      ((g.mosh \/ g.feedback) => base_pos >= 1) => CanFire(g)

\* C20 as amended: the transforms that fire in a call are always in the
\* order channel displacement, noise, line scramble, datamosh, block,
\* feedback; the line scramble fires only in a call in which the noise
\* fires; with that, and datamosh and feedback needing a call before it,
\* every subset can fire on a frame large enough for every draw; datamosh
\* reads prev_frame only and feedback reads feedback_frame only.
C20_Amended ==
  /\ [](mpc \in {"stream", "crashed"} =>
          /\ \E g \in GateSet : fired1 = Chosen(g)
          /\ Fired(fired1, "scramble") => Fired(fired1, "noise"))
  /\ [](BeforeCall =>
          \A g \in GateSet :
            (/\ g.scramble => g.noise
             /\ (g.mosh \/ g.feedback) => base_pos >= 1) => CanFire(g))
  /\ [][(mpc = "stream" /\ mpc' = "stream") =>
         /\ ReadBy(frame1_fx', "mosh")
              \in {NoneFrame, persistence1.prev_frame}
         /\ ReadBy(frame1_fx', "feedback")
              \in {NoneFrame, persistence1.feedback_frame}]_vars
C20_Witness ==
  /\ mpc = "stream" /\ base_pos = 2
  /\ fired1 = <<"noise", "scramble", "mosh">>
  /\ ReadBy(frame1_fx, "mosh") = <<"src", 1, 0>>

====
